---- MODULE Spec2Model ----
(***************************************************************************)
(* Model of scripts/qbit-mover-manage.py: the selection of torrents to     *)
(* pause (filter_torrents, exists_in_cache), the state file written by the *)
(* pause phase and read by the resume phase (save_torrent_state,           *)
(* load_torrent_state), the action loop (manage_torrents) and the two      *)
(* branches of main.                                                       *)
(***************************************************************************)
EXTENDS Integers, Sequences, FiniteSets, TLC

(* ------------------------------ bounds -------------------------------- *)

\* Number of torrents the client can hold; their hashes are 1..NumTorrents.
NumTorrents == 2

\* Timestamps (added_on, timeoffset_from, timeoffset_to) range over 0..MaxTime.
MaxTime == 3

\* Longest torrent list handed to filter_torrents on its own.
MaxLen == 3

\* --days-from and --days-to of a pause invocation range over 0..MaxDays, and so do
\* the ages in days of the torrents in the client.
MaxDays == 2

Hashes == 1..NumTorrents
Times == 0..MaxTime

\* The hashes of a sequence of torrents, and the elements of a sequence.
HashSet(ts) == {ts[i].hash : i \in 1..Len(ts)}
Range(q) == {q[i] : i \in 1..Len(q)}

VARIABLES
    \* --- the qBittorrent client and the filesystem (the environment) ---
    present,          \* hashes of the torrents the client currently holds
    paused,           \* hashes of the torrents that are paused in the client
    fs,               \* paths that exist on disk (below and outside the cache mount)
    fsDenied,         \* paths whose os.stat raises PermissionError
    file,             \* content of the state file: NoFile or a sequence of JSON tokens
    \* --- arguments and locals of filter_torrents ---
    torrent_list, timeoffset_from, timeoffset_to, cache_mount, result,
    \* --- result of load_torrent_state ---
    loaded,
    \* --- one invocation of main ---
    args,             \* the command line of the invocation, where one invocation is
                      \* looked at on its own: the Namespace of parse_args and the
                      \* flags that were given
    pc,               \* position of the running invocation: "done" when main has returned,
                      \* "idle" between invocations
    action,           \* args.action of the running / last invocation
    snapshot,         \* hashes returned by client.torrents.info() in this invocation
    torrents,         \* the batch: local `torrents` of main, as a sequence of hashes
    idx,              \* number of torrents manage_torrents has gone through
    calls,            \* hashes on which pause()/resume() returned in this invocation
    connected,        \* Client(...) was constructed in this invocation
    error,            \* message kind of the exception that ended the invocation, or "none"
    exit,             \* return value of main, -1 until it returns
    \* --- history (not read by the program) ---
    lastPaused,       \* hashes paused by the most recent pause invocation that got as
                      \* far as selecting torrents
    lastPauseOk,      \* the previous finished invocation was a pause that returned 0
    prevPauseOk,      \* lastPauseOk as it was when the running invocation started
    recordPaused,     \* hashes paused by the most recent pause invocation that saved
                      \* its record; {} once no record is left in the state file and
                      \* the invocation that saw it last has ended
    fileAtStart,      \* the state file as it was when the running invocation started
    removeFailed      \* os.remove raised OSError in this invocation

vars == <<present, paused, fs, fsDenied, file,
          torrent_list, timeoffset_from, timeoffset_to, cache_mount, result,
          loaded, args, pc, action, snapshot, torrents, idx, calls, connected, error, exit,
          lastPaused, lastPauseOk, prevPauseOk, recordPaused, fileAtStart, removeFailed>>

envVars == <<present, paused, fs, fsDenied>>
filterVars == <<torrent_list, timeoffset_from, timeoffset_to, cache_mount, result>>
runVars == <<pc, action, snapshot, torrents, idx, calls, connected, error, exit>>
histVars == <<lastPaused, lastPauseOk, prevPauseOk, recordPaused, fileAtStart, removeFailed>>

(* ------------------------------- paths -------------------------------- *)

\* A path is a sequence of characters; a character is "/" or a name character.
Sep == [sep |-> TRUE, name |-> 0]
Name(n) == [sep |-> FALSE, name |-> n]

\* --cache-mount: default None, else the string given.
NoMount == [given |-> FALSE, path |-> << >>]
MountAt(p) == [given |-> TRUE, path |-> p]

\* The cache mount "/m" used in the runs (name character 0 is "m").
CacheRoot == <<Sep, Name(0)>>

\* torrent.content_path of torrent h: "/h", "h" or "//h".
ContentPath(h) ==
    CASE h % 3 = 1 -> <<Sep, Name(h)>>
      [] h % 3 = 2 -> <<Name(h)>>
      [] OTHER     -> <<Sep, Sep, Name(h)>>

\* A TorrentDictionary as the program reads it.
Torrent(h, t) == [hash |-> h, added_on |-> t, content_path |-> ContentPath(h)]

RECURSIVE lstrip(_)
lstrip(p) == IF p # << >> /\ Head(p) = Sep THEN lstrip(Tail(p)) ELSE p

\* posixpath.join(a, b)
path_join(a, b) ==
    IF b # << >> /\ Head(b) = Sep THEN b
    ELSE IF a = << >> \/ a[Len(a)] = Sep THEN a \o b
    ELSE a \o <<Sep>> \o b

\* os.path.exists(p): os.stat succeeded; an OSError of any kind gives False.
path_exists(p) == p \in fs /\ p \notin fsDenied

exists_in_cache_nostrip(mount, content_path) ==
    path_exists(path_join(mount, content_path))

exists_in_cache(mount, content_path) ==
    path_exists(path_join(mount, lstrip(content_path)))

(* --------------------------- filter_torrents -------------------------- *)

\* timeoffset_to <= torrent.added_on <= timeoffset_from
in_window(added_on, from, to) == to <= added_on /\ added_on <= from

\* a scan that stops at the first torrent outside the window, newer or older
stop_scan_outside(added_on, from, to) == ~in_window(added_on, from, to)

\* elif torrent.added_on < timeoffset_to: break
stop_scan(added_on, from, to) == added_on < to

\* not cache_mount or exists_in_cache(cache_mount, torrent.content_path)
cache_ok(mount, content_path) ==
    (~mount.given \/ mount.path = << >>) \/ exists_in_cache(mount.path, content_path)

RECURSIVE filter_scan(_, _, _, _, _, _)
filter_scan(list, i, from, to, mount, acc) ==
    IF i > Len(list) THEN acc
    ELSE LET torrent == list[i] IN
         IF in_window(torrent.added_on, from, to)
         THEN IF cache_ok(mount, torrent.content_path)
              THEN filter_scan(list, i + 1, from, to, mount, Append(acc, torrent))
              ELSE filter_scan(list, i + 1, from, to, mount, acc)
         ELSE IF stop_scan(torrent.added_on, from, to)
         THEN acc
         ELSE filter_scan(list, i + 1, from, to, mount, acc)

filter_torrents(list, from, to, mount) == filter_scan(list, 1, from, to, mount, << >>)

(* ----------------------------- state file ----------------------------- *)

\* The state file does not exist.
NoFile == <<[tok |-> "ENOENT", n |-> 0]>>

\* JSON tokens: punctuation, object keys, and string values (n names the string:
\* a torrent hash when n >= 1, some other string when n = 0).
Punct(s) == [tok |-> s, n |-> 0]
Key(k) == [tok |-> "key", n |-> k]
Str(n) == [tok |-> "str", n |-> n]

\* Object keys, by number.
KeyHashes == Key(1)      \* "torrent_hashes"
KeyTimestamp == Key(2)   \* "timestamp"
KeyVersion == Key(3)     \* "version"
KeyOther == Key(4)       \* a key the program does not know

\* the hashes of the whole listing, selected or not
hashes_of_listing(ts) == [i \in 1..Len(snapshot) |-> snapshot[i].hash]

\* [t.hash for t in torrents]
hashes_of(ts) == [i \in 1..Len(ts) |-> ts[i].hash]

\* json.dump of a list of strings
dump_list(hs) == <<Punct("[")>> \o [i \in 1..Len(hs) |-> Str(hs[i])] \o <<Punct("]")>>

\* json.dump(state, f) for state = {'torrent_hashes': hs, 'timestamp': ..., 'version': '1.0'}
json_dump_state(hs) ==
    <<Punct("{"), KeyHashes>> \o dump_list(hs)
        \o <<KeyTimestamp, Str(0), KeyVersion, Str(0), Punct("}")>>

\* json.load: the parsed object, or a JSONDecodeError.
\* An object is parsed to the set of its keys and the list under "torrent_hashes".
DecodeError == [ok |-> FALSE, keys |-> {}, hashes |-> << >>]

RECURSIVE list_end(_, _)
\* index of the "]" closing a list of strings whose items start at i, or 0
list_end(toks, i) ==
    IF i > Len(toks) THEN 0
    ELSE IF toks[i].tok = "]" THEN i
    ELSE IF toks[i].tok = "str" THEN list_end(toks, i + 1)
    ELSE 0

RECURSIVE parse_members(_, _, _, _)
parse_members(toks, i, keys, hashes) ==
    IF i > Len(toks) THEN DecodeError
    ELSE IF toks[i].tok = "}"
    THEN IF i = Len(toks) THEN [ok |-> TRUE, keys |-> keys, hashes |-> hashes]
         ELSE DecodeError                      \* "Extra data"
    ELSE IF toks[i].tok = "key" /\ i + 1 <= Len(toks)
    THEN IF toks[i + 1].tok = "str"
         THEN parse_members(toks, i + 2, keys \cup {toks[i].n},
                            IF toks[i] = KeyHashes THEN << >> ELSE hashes)
         ELSE IF toks[i + 1].tok = "["
         THEN LET j == list_end(toks, i + 2) IN
              IF j = 0 THEN DecodeError
              ELSE parse_members(toks, j + 1, keys \cup {toks[i].n},
                                 IF toks[i] = KeyHashes
                                 THEN [k \in 1..(j - i - 2) |-> toks[i + 1 + k].n]
                                 ELSE hashes)
         ELSE DecodeError
    ELSE DecodeError

json_load(toks) ==
    IF toks # << >> /\ toks[1].tok = "{" THEN parse_members(toks, 2, {}, << >>)
    ELSE DecodeError


\* Outcomes of load_torrent_state: the state it returns, or the exception it raises.
Loaded(st) == [ok |-> TRUE, type |-> "none", msg |-> "none",
               keys |-> st.keys, hashes |-> st.hashes]
Raised(type, msg) == [ok |-> FALSE, type |-> type, msg |-> msg,
                      keys |-> {}, hashes |-> << >>]
NotLoaded == Raised("none", "not_loaded")

\* required_keys = {'torrent_hashes', 'timestamp'}
required_keys == {KeyHashes.n, KeyTimestamp.n}

\* a validation that asks for the hash list only
has_required_keys_hashes_only(st) == KeyHashes.n \in st.keys

\* all(key in state for key in required_keys)
has_required_keys(st) == required_keys \subseteq st.keys

\* a loader that takes a missing state file for an empty record
load_torrent_state_missing_ok(f, unreadable) ==
    IF f = NoFile
    THEN Loaded([keys |-> required_keys, hashes |-> << >>])
    ELSE IF unreadable THEN Raised("RuntimeError", "read_failed")
    ELSE LET st == json_load(f) IN
         IF ~st.ok THEN Raised("RuntimeError", "corrupted")
         ELSE IF ~has_required_keys(st) THEN Raised("ValueError", "missing_fields")
         ELSE Loaded(st)

\* load_torrent_state(state_file); unreadable: open() raises an OSError other than
\* FileNotFoundError.
load_torrent_state(f, unreadable) ==
    IF f = NoFile THEN Raised("RuntimeError", "no_state_file")
    ELSE IF unreadable THEN Raised("RuntimeError", "read_failed")
    ELSE LET st == json_load(f) IN
         IF ~st.ok THEN Raised("RuntimeError", "corrupted")
         ELSE IF ~has_required_keys(st) THEN Raised("ValueError", "missing_fields")
         ELSE Loaded(st)

\* a writer that opens the state file for appending
save_torrent_state_append(ts, old) ==
    LET doc == json_dump_state(hashes_of(ts)) IN
    {[ok |-> FALSE, file |-> old],
     [ok |-> TRUE, file |-> IF old = NoFile THEN doc ELSE old \o doc]}

\* Outcomes of save_torrent_state(torrents, state_file) on a path holding `old`:
\* the directory checks or open() fail and the file is untouched; the write fails
\* after k tokens of the record, the file having been truncated by open(..., 'w');
\* or the record is written whole.
save_torrent_state(ts, old) ==
    LET doc == json_dump_state(hashes_of(ts)) IN
    {[ok |-> FALSE, file |-> old]}
        \cup {[ok |-> FALSE, file |-> SubSeq(doc, 1, k)] : k \in 0..(Len(doc) - 1)}
        \cup {[ok |-> TRUE, file |-> doc]}

(* ------------------------------ the client ---------------------------- *)

\* added_on of torrent h in the client.
AddedOn(h) == (h - 1) % (MaxDays + 1)

\* the current time of a pause invocation: datetime.now()
Now == MaxDays

\* All orderings of a set of hashes, as sequences.
Orderings(S) ==
    {s \in [1..Cardinality(S) -> S] : \A i, j \in 1..Cardinality(S) : i # j => s[i] # s[j]}

\* client.torrents.info(status_filter=..., sort="added_on", reverse=True): the torrents
\* of some status, newest first.
SortedListings ==
    {[i \in 1..Len(s) |-> Torrent(s[i], AddedOn(s[i]))] :
        s \in {o \in UNION {Orderings(S) : S \in SUBSET present} :
                 \A i \in 1..(Len(o) - 1) : AddedOn(o[i]) >= AddedOn(o[i + 1])}}

\* client.torrents.info(): every torrent, in the client's order.
FullListings ==
    {[i \in 1..Len(s) |-> Torrent(s[i], AddedOn(s[i]))] : s \in Orderings(present)}

\* a reconciliation that takes the whole snapshot
saved_torrents_all(listing, hashes) == listing

\* a reconciliation that loses the last saved torrent of the snapshot
saved_torrents_butlast(listing, hashes) ==
    LET kept == SelectSeq(listing, LAMBDA t : \E i \in 1..Len(hashes) : hashes[i] = t.hash)
    IN IF kept = << >> THEN kept ELSE SubSeq(kept, 1, Len(kept) - 1)

\* [t for t in client.torrents.info() if t.hash in saved_state['torrent_hashes']]
saved_torrents(listing, hashes) ==
    SelectSeq(listing, LAMBDA t : \E i \in 1..Len(hashes) : hashes[i] = t.hash)

(* -------------------------------- main -------------------------------- *)

\* pause_params of validate_args: the flags that only the pause action reads.
pause_params == <<"cache_mount", "days_from", "days_to", "status_filter">>

\* The defaults argparse gives --days-from and --days-to.
DefaultDaysFrom == 0
DefaultDaysTo == 2

\* The values of --status-filter the command lines range over; the first is the
\* default.
StatusFilters == {"completed", "all"}

\* parser.get_default(p)
get_default(p) ==
    CASE p = "cache_mount" -> NoMount
      [] p = "days_from" -> DefaultDaysFrom
      [] p = "days_to" -> DefaultDaysTo
      [] p = "status_filter" -> "completed"

\* getattr(a, p)
getattr(a, p) ==
    CASE p = "cache_mount" -> a.cache_mount
      [] p = "days_from" -> a.days_from
      [] p = "days_to" -> a.days_to
      [] p = "status_filter" -> a.status_filter

\* The command lines with action `act`, as parse_args returns them: the Namespace
\* (action and the four values) and, beside it, the set of flags that were written
\* on the command line. A flag that was not written has its default; --cache-mount,
\* when written, carries a string.
CommandLines(act) ==
    {a \in [action : {act}, supplied : SUBSET Range(pause_params),
            cache_mount : {NoMount, MountAt(<< >>), MountAt(CacheRoot)},
            days_from : 0..MaxDays, days_to : 0..MaxDays,
            status_filter : StatusFilters] :
        /\ \A p \in Range(pause_params) \ a.supplied : getattr(a, p) = get_default(p)
        /\ "cache_mount" \in a.supplied => a.cache_mount.given}

\* No command line is being looked at on its own.
NoArgs == [action |-> "none", supplied |-> {}, cache_mount |-> NoMount,
           days_from |-> DefaultDaysFrom, days_to |-> DefaultDaysTo,
           status_filter |-> "completed"]

\* The command lines of the pause invocations in the runs of main: every window,
\* with and without a cache mount.
PauseArgs ==
    {a \in CommandLines("pause") :
        /\ a.supplied \in {{"days_from", "days_to"}, {"days_from", "days_to", "cache_mount"}}
        /\ a.cache_mount \in {NoMount, MountAt(CacheRoot)}}

\* The command lines of the resume invocations in the runs of main: each pause-only
\* flag is either not written or written with a value other than its default.
ResumeArgs ==
    {a \in CommandLines("resume") :
        /\ \A p \in a.supplied : getattr(a, p) # get_default(p)
        /\ a.cache_mount \in {NoMount, MountAt(CacheRoot)}
        /\ a.days_from \in {DefaultDaysFrom, 1}
        /\ a.days_to \in {DefaultDaysTo, 1}}

\* validate_args for action 'resume': provided_params, in the order of pause_params.
provided_params(a) ==
    LET keep[i \in 0..Len(pause_params)] ==
            IF i = 0 THEN << >>
            ELSE IF getattr(a, pause_params[i]) # get_default(pause_params[i])
                 THEN Append(keep[i - 1], pause_params[i])
                 ELSE keep[i - 1]
    IN  keep[Len(pause_params)]

\* a window check that lets a window of one day too many through
bad_window_off_by_one(days_from, days_to) == days_from > days_to + 1

\* main, action 'pause': `if args.days_from > args.days_to`
bad_window(days_from, days_to) == days_from > days_to

\* an empty selection that goes on to save_torrent_state
after_selection_always_save(ts) == IF ts = << >> THEN "saving" ELSE "pausing"

\* main, action 'pause', after the selection: `if not torrents` returns, otherwise
\* manage_torrents runs.
after_selection(ts) == IF ts = << >> THEN "done" ELSE "pausing"

\* An invocation of main begins.
Begin(a) ==
    /\ pc = "idle"
    /\ action' = a
    /\ prevPauseOk' = lastPauseOk
    /\ fileAtStart' = file
    /\ removeFailed' = FALSE

\* main, run with action `a`, returns `code`; `err` is the message logged by its
\* except clause.
Return(a, code, err) ==
    /\ pc' = "done"
    /\ exit' = code
    /\ error' = err
    /\ lastPauseOk' = (a = "pause" /\ code = 0)


\* The user adds a torrent to the client or deletes one, between two invocations.
AddTorrent ==
    /\ pc = "idle"
    /\ \E h \in Hashes \ present : present' = present \cup {h}
    /\ UNCHANGED <<paused, fs, fsDenied, file, filterVars, args, loaded, runVars, histVars>>

RemoveTorrent ==
    /\ pc = "idle"
    /\ \E h \in present : present' = present \ {h} /\ paused' = paused \ {h}
    /\ UNCHANGED <<fs, fsDenied, file, filterVars, args, loaded, runVars, histVars>>

\* main, action 'pause', run with the command line `a`, up to the call of
\* manage_torrents: validation, connection, query and selection.
PauseStartWith(a) ==
    /\ Begin("pause")
    /\ idx' = 0
    /\ calls' = {}
    /\    IF bad_window(a.days_from, a.days_to)
          THEN /\ Return("pause", 1, "config")
               /\ connected' = FALSE
               /\ snapshot' = << >>
               /\ torrents' = << >>
               /\ UNCHANGED lastPaused
          ELSE /\ connected' = TRUE
               /\ \/ /\ Return("pause", 1, "connect")            \* Client(...) raises
                     /\ snapshot' = << >>
                     /\ torrents' = << >>
                     /\ UNCHANGED lastPaused
                  \/ /\ Return("pause", 1, "query")              \* client.torrents.info raises
                     /\ snapshot' = << >>
                     /\ torrents' = << >>
                     /\ UNCHANGED lastPaused
                  \/ \E listing \in SortedListings :
                        /\ snapshot' = listing
                        /\ lastPaused' = {}
                        /\ torrents' = filter_torrents(listing, Now - a.days_from,
                                                       Now - a.days_to, a.cache_mount)
                        /\ IF after_selection(torrents') = "done"
                           THEN Return("pause", 0, "none")
                           ELSE /\ pc' = after_selection(torrents')
                                /\ UNCHANGED <<exit, error, lastPauseOk>>
    /\ UNCHANGED <<envVars, file, filterVars, args, loaded, recordPaused>>

\* A pause invocation in the runs of main.
PauseStart == \E a \in PauseArgs : PauseStartWith(a)

\* a loop that gives up at the torrent whose pause() raises and lets main go on to
\* save_torrent_state
PauseOne_save_on_failure ==
    /\ pc = "pausing"
    /\ LET h == torrents[idx + 1].hash IN
       \/ /\ paused' = paused \cup {h}
          /\ calls' = calls \cup {h}
          /\ lastPaused' = lastPaused \cup {h}
          /\ idx' = idx + 1
          /\ pc' = IF idx + 1 = Len(torrents) THEN "saving" ELSE "pausing"
       \/ /\ pc' = "saving"
          /\ UNCHANGED <<paused, calls, lastPaused, idx>>
    /\ UNCHANGED <<present, fs, fsDenied, file, filterVars, args, loaded, action, snapshot,
                   torrents, connected, prevPauseOk, recordPaused, fileAtStart,
                   removeFailed, exit, error, lastPauseOk>>

\* manage_torrents(client, torrents, pause=True): one iteration of its loop.
PauseOne ==
    /\ pc = "pausing"
    /\ LET h == torrents[idx + 1].hash IN
       \/ /\ paused' = paused \cup {h}                  \* torrent.pause() returns
          /\ calls' = calls \cup {h}
          /\ lastPaused' = lastPaused \cup {h}
          /\ idx' = idx + 1
          /\ pc' = IF idx + 1 = Len(torrents) THEN "saving" ELSE "pausing"
          /\ UNCHANGED <<exit, error, lastPauseOk>>
       \/ /\ Return("pause", 1, "torrent_action")                \* torrent.pause() raises
          /\ UNCHANGED <<paused, calls, lastPaused, idx>>
    /\ UNCHANGED <<present, fs, fsDenied, file, filterVars, args, loaded, action, snapshot,
                   torrents, connected, prevPauseOk, recordPaused, fileAtStart,
                   removeFailed>>

\* save_torrent_state(torrents, args.state_file) and the return of main.
PauseSave ==
    /\ pc = "saving"
    /\ \E out \in save_torrent_state(torrents, file) :
          /\ file' = out.file
          /\ recordPaused' = IF out.ok THEN calls ELSE recordPaused
          /\ IF out.ok THEN Return("pause", 0, "none") ELSE Return("pause", 1, "save_failed")
    /\ UNCHANGED <<envVars, filterVars, args, loaded, action, snapshot, torrents, idx, calls,
                   connected, lastPaused, prevPauseOk, fileAtStart, removeFailed>>

\* main, action 'resume', run with the command line `a`, up to the call of
\* manage_torrents: validation, load, connection, query and reconciliation.
ResumeStartWith(a) ==
    /\ Begin("resume")
    /\ idx' = 0
    /\ calls' = {}
    /\ \E unreadable \in BOOLEAN :
          IF provided_params(a) # << >>
          THEN /\ Return("resume", 1, "invalid_params")
               /\ loaded' = NotLoaded
               /\ connected' = FALSE
               /\ snapshot' = << >>
               /\ torrents' = << >>
          ELSE /\ loaded' = load_torrent_state(file, unreadable)
               /\ IF ~loaded'.ok
                  THEN /\ Return("resume", 1, loaded'.msg)
                       /\ connected' = FALSE
                       /\ snapshot' = << >>
                       /\ torrents' = << >>
                  ELSE /\ connected' = TRUE
                       /\ \/ /\ Return("resume", 1, "connect")    \* Client(...) raises
                             /\ snapshot' = << >>
                             /\ torrents' = << >>
                          \/ /\ Return("resume", 1, "query")      \* client.torrents.info raises
                             /\ snapshot' = << >>
                             /\ torrents' = << >>
                          \/ \E listing \in FullListings :
                                /\ snapshot' = listing
                                /\ torrents' = saved_torrents(listing, loaded'.hashes)
                                /\ pc' = IF torrents' = << >> THEN "cleanup"
                                         ELSE "resuming"
                                /\ UNCHANGED <<exit, error, lastPauseOk>>
    /\ UNCHANGED <<envVars, file, filterVars, args, lastPaused, recordPaused>>

\* A resume invocation in the runs of main.
ResumeStart == \E a \in ResumeArgs : ResumeStartWith(a)

\* a loop whose failure still removes the state file
ResumeOne_remove_on_failure ==
    /\ pc = "resuming"
    /\ LET h == torrents[idx + 1].hash IN
       \/ /\ paused' = paused \ {h}
          /\ calls' = calls \cup {h}
          /\ idx' = idx + 1
          /\ pc' = IF idx + 1 = Len(torrents) THEN "cleanup" ELSE "resuming"
          /\ UNCHANGED <<exit, error, lastPauseOk, file>>
       \/ /\ Return("resume", 1, "torrent_action")
          /\ file' = NoFile
          /\ UNCHANGED <<paused, calls, idx>>
    /\ UNCHANGED <<present, fs, fsDenied, filterVars, args, loaded, action, snapshot,
                   torrents, connected, lastPaused, prevPauseOk, recordPaused,
                   fileAtStart, removeFailed>>

\* a loop that goes on to the next torrent when resume() raises
ResumeOne_skip_failed ==
    /\ pc = "resuming"
    /\ LET h == torrents[idx + 1].hash IN
       /\ \/ /\ paused' = paused \ {h}
             /\ calls' = calls \cup {h}
          \/ UNCHANGED <<paused, calls>>
       /\ idx' = idx + 1
       /\ pc' = IF idx + 1 = Len(torrents) THEN "cleanup" ELSE "resuming"
       /\ UNCHANGED <<exit, error, lastPauseOk>>
    /\ UNCHANGED <<present, fs, fsDenied, file, filterVars, args, loaded, action, snapshot,
                   torrents, connected, lastPaused, prevPauseOk, recordPaused,
                   fileAtStart, removeFailed>>

\* manage_torrents(client, torrents, pause=False): one iteration of its loop.
ResumeOne ==
    /\ pc = "resuming"
    /\ LET h == torrents[idx + 1].hash IN
       \/ /\ paused' = paused \ {h}                     \* torrent.resume() returns
          /\ calls' = calls \cup {h}
          /\ idx' = idx + 1
          /\ pc' = IF idx + 1 = Len(torrents) THEN "cleanup" ELSE "resuming"
          /\ UNCHANGED <<exit, error, lastPauseOk>>
       \/ /\ Return("resume", 1, "torrent_action")                \* torrent.resume() raises
          /\ UNCHANGED <<paused, calls, idx>>
    /\ UNCHANGED <<present, fs, fsDenied, file, filterVars, args, loaded, action, snapshot,
                   torrents, connected, lastPaused, prevPauseOk, recordPaused,
                   fileAtStart, removeFailed>>

\* a cleanup that returns without removing the state file
ResumeCleanup_keep ==
    /\ pc = "cleanup"
    /\ Return("resume", 0, "none")
    /\ UNCHANGED <<envVars, file, filterVars, args, loaded, action, snapshot, torrents, idx,
                   calls, connected, lastPaused, prevPauseOk, recordPaused, fileAtStart,
                   removeFailed>>

\* a cleanup whose OSError reaches the except clause of main
ResumeCleanup_fatal ==
    /\ pc = "cleanup"
    /\ \/ /\ file' = NoFile
          /\ removeFailed' = FALSE
          /\ Return("resume", 0, "none")
       \/ /\ removeFailed' = TRUE
          /\ UNCHANGED file
          /\ Return("resume", 1, "remove_failed")
    /\ UNCHANGED <<envVars, filterVars, args, loaded, action, snapshot, torrents, idx, calls,
                   connected, lastPaused, prevPauseOk, recordPaused, fileAtStart>>

\* os.remove(args.state_file) in its try block, and the return of main.
ResumeCleanup ==
    /\ pc = "cleanup"
    /\ \/ /\ file' = NoFile                             \* os.remove returns
          /\ removeFailed' = FALSE
       \/ /\ removeFailed' = TRUE                       \* os.remove raises OSError
          /\ UNCHANGED file
    /\ Return("resume", 0, "none")
    /\ UNCHANGED <<envVars, filterVars, args, loaded, action, snapshot, torrents, idx, calls,
                   connected, lastPaused, prevPauseOk, recordPaused, fileAtStart>>

(* --------------------------- specifications --------------------------- *)

\* The files below the cache mount in the runs of main: the content of the
\* odd-numbered torrents.
CachedContent == {path_join(CacheRoot, lstrip(ContentPath(h))) : h \in {k \in Hashes : k % 2 = 1}}

\* No invocation of main is running or has run.
NoRun ==
    /\ args = NoArgs
    /\ action = "none"
    /\ snapshot = << >>
    /\ torrents = << >>
    /\ idx = 0
    /\ calls = {}
    /\ connected = FALSE
    /\ error = "none"
    /\ exit = -1
    /\ lastPaused = {}
    /\ lastPauseOk = FALSE
    /\ prevPauseOk = FALSE
    /\ recordPaused = {}
    /\ fileAtStart = NoFile
    /\ removeFailed = FALSE

\* filter_torrents is not being looked at on its own.
NoFilterCall ==
    /\ torrent_list = << >>
    /\ timeoffset_from = 0
    /\ timeoffset_to = 0
    /\ cache_mount = NoMount
    /\ result = << >>

\* Before the first invocation: some torrents in the client, none paused, no state file.
Init ==
    /\ present \in SUBSET Hashes
    /\ paused = {}
    /\ fs = CachedContent
    /\ fsDenied = {}
    /\ file = NoFile
    /\ loaded = NotLoaded
    /\ pc = "idle"
    /\ NoFilterCall
    /\ NoRun

\* The process of the finished invocation ends: its locals are gone.
ProcessExit ==
    /\ pc = "done"
    /\ pc' = "idle"
    /\ action' = "none"
    /\ snapshot' = << >>
    /\ torrents' = << >>
    /\ idx' = 0
    /\ calls' = {}
    /\ connected' = FALSE
    /\ error' = "none"
    /\ exit' = -1
    /\ loaded' = NotLoaded
    /\ prevPauseOk' = FALSE
    /\ fileAtStart' = NoFile
    /\ removeFailed' = FALSE
    /\ recordPaused' = IF json_load(file).ok THEN recordPaused ELSE {}
    /\ UNCHANGED <<envVars, file, filterVars, args, lastPaused, lastPauseOk>>

Next ==
    \/ AddTorrent
    \/ RemoveTorrent
    \/ PauseStart
    \/ PauseOne
    \/ PauseSave
    \/ ResumeStart
    \/ ResumeOne
    \/ ResumeCleanup
    \/ ProcessExit

Spec == Init /\ [][Next]_vars


(* ----------------------- filter_torrents on its own -------------------- *)

\* The content of the torrents of S below the cache mount, and at the paths the
\* client reports.
CachedPaths(S) == {path_join(CacheRoot, lstrip(ContentPath(h))) : h \in S}
ReportedPaths(S) == {ContentPath(h) : h \in S}

\* Torrent lists of up to MaxLen torrents with any added_on, sorted or not; the
\* i-th torrent has hash i.
TorrentLists ==
    UNION {{[i \in 1..n |-> Torrent(i, ts[i])] : ts \in [1..n -> Times]} : n \in 0..MaxLen}

FilterInit ==
    /\ torrent_list \in TorrentLists
    /\ timeoffset_from \in Times
    /\ timeoffset_to \in Times
    /\ cache_mount \in {NoMount, MountAt(<< >>), MountAt(CacheRoot)}
    /\ fs \in IF cache_mount = MountAt(CacheRoot)
              THEN {CachedPaths(S) \cup R :
                       S \in SUBSET (1..MaxLen),
                       R \in {{}, ReportedPaths(1..MaxLen)}}
              ELSE {{}}
    /\ fsDenied \in IF cache_mount = MountAt(CacheRoot)
                    THEN {{}, CachedPaths({1})}
                    ELSE {{}}
    /\ result = << >>
    /\ present = {}
    /\ paused = {}
    /\ file = NoFile
    /\ loaded = NotLoaded
    /\ pc = "filter"
    /\ NoRun

\* filter_torrents(torrent_list, timeoffset_from, timeoffset_to, cache_mount)
FilterCall ==
    /\ pc = "filter"
    /\ result' = filter_torrents(torrent_list, timeoffset_from, timeoffset_to, cache_mount)
    /\ pc' = "filtered"
    /\ UNCHANGED <<envVars, file, torrent_list, timeoffset_from, timeoffset_to,
                   cache_mount, loaded, args, action, snapshot, torrents, idx, calls,
                   connected, error, exit, histVars>>

FilterNext == FilterCall

FilterSpec == FilterInit /\ [][FilterNext]_vars

(* --------------------- load_torrent_state on its own ------------------- *)

\* Sequences of distinct elements of S.
DistinctSeqs(S) == UNION {Orderings(T) : T \in SUBSET S}

\* A JSON object with the keys ks in that order; "torrent_hashes" holds the list
\* hs, every other key a string.
Document(ks, hs) ==
    LET member(k) == IF Key(k) = KeyHashes THEN <<Key(k)>> \o dump_list(hs)
                     ELSE <<Key(k), Str(0)>>
        members[i \in 0..Len(ks)] ==
            IF i = 0 THEN << >> ELSE members[i - 1] \o member(ks[i])
    IN <<Punct("{")>> \o members[Len(ks)] \o <<Punct("}")>>

AllKeys == {KeyHashes.n, KeyTimestamp.n, KeyVersion.n, KeyOther.n}

\* The well-formed state files that hold exactly the keys K.
DocumentsWith(K) ==
    {Document(ks, hs) : ks \in Orderings(K),
                        hs \in IF KeyHashes.n \in K THEN DistinctSeqs(Hashes) ELSE {<< >>}}

Documents == UNION {DocumentsWith(K) : K \in SUBSET AllKeys}

\* Damaged files: a document cut short, with one token lost, or followed by more data.
Damaged ==
    UNION {{SubSeq(d, 1, k) : k \in 0..(Len(d) - 1)}
             \cup {SubSeq(d, 1, k - 1) \o SubSeq(d, k + 1, Len(d)) : k \in 1..Len(d)}
             \cup {d \o <<Punct("}")>>, d \o d} : d \in Documents}

LoadInit ==
    /\ file \in {NoFile} \cup Documents \cup Damaged
    /\ loaded = NotLoaded
    /\ present = {}
    /\ paused = {}
    /\ fs = {}
    /\ fsDenied = {}
    /\ pc = "load"
    /\ NoFilterCall
    /\ NoRun

\* load_torrent_state(state_file)
LoadCall ==
    /\ pc = "load"
    /\ \E unreadable \in BOOLEAN : loaded' = load_torrent_state(file, unreadable)
    /\ pc' = "loaded"
    /\ UNCHANGED <<envVars, file, filterVars, args, action, snapshot, torrents, idx, calls,
                   connected, error, exit, histVars>>

LoadNext == LoadCall

LoadSpec == LoadInit /\ [][LoadNext]_vars

(* ---------------------- one invocation on its own ---------------------- *)

\* One invocation of main with any command line: some torrents in the client, and
\* either no state file or the record an earlier pause invocation saved, whose
\* torrents are paused as far as they are still in the client.
InvocationInit ==
    /\ args \in CommandLines("pause") \cup CommandLines("resume")
    /\ present \in SUBSET Hashes
    /\ \E hs \in DistinctSeqs(Hashes) :
          /\ file = IF hs = << >> THEN NoFile ELSE json_dump_state(hs)
          /\ paused = Range(hs) \cap present
          /\ lastPaused = Range(hs)
          /\ recordPaused = Range(hs)
          /\ lastPauseOk = (hs # << >>)
    /\ fs = CachedContent
    /\ fsDenied = {}
    /\ loaded = NotLoaded
    /\ NoFilterCall
    /\ pc = "idle"
    /\ action = "none"
    /\ snapshot = << >>
    /\ torrents = << >>
    /\ idx = 0
    /\ calls = {}
    /\ connected = FALSE
    /\ error = "none"
    /\ exit = -1
    /\ prevPauseOk = FALSE
    /\ fileAtStart = NoFile
    /\ removeFailed = FALSE

\* main() with the command line args
InvokePause == args.action = "pause" /\ PauseStartWith(args)

InvokeResume == args.action = "resume" /\ ResumeStartWith(args)

InvocationNext ==
    \/ InvokePause
    \/ PauseOne
    \/ PauseSave
    \/ InvokeResume
    \/ ResumeOne
    \/ ResumeCleanup

InvocationSpec == InvocationInit /\ [][InvocationNext]_vars


(* ------------------------------- claims ------------------------------- *)


\* C1, as stated: every torrent on which a resume invocation calls resume() was
\* paused by the most recent pause invocation before it.
C1_ResumedWerePausedByLatestPause ==
    action = "resume" => calls \subseteq lastPaused

\* C1, amended: every torrent on which a resume invocation calls resume() was
\* paused by the most recent pause invocation that saved its record in the state
\* file.
C1_ResumedWerePausedByRecordWriter ==
    action = "resume" => calls \subseteq recordPaused

\* A resume invocation has resumed a torrent although the pause invocation before it
\* selected nothing, and a torrent that was never paused is in the client.
C1_Witness ==
    /\ action = "resume"
    /\ pc = "done"
    /\ exit = 0
    /\ calls # {}
    /\ lastPaused = {}
    /\ HashSet(snapshot) \ recordPaused # {}

\* C2: when a pause invocation returned 0 having paused S and the next invocation is
\* a resume that returns 0, resume() was called on every torrent of S that is in the
\* snapshot of the resume invocation.
C2_PausedAndPresentAreResumed ==
    (action = "resume" /\ pc = "done" /\ exit = 0 /\ prevPauseOk)
        => (lastPaused \cap HashSet(snapshot)) \subseteq calls

\* A pause that paused two torrents is followed by a resume that returns 0 after one
\* of the two has left the client.
C2_Witness ==
    /\ action = "resume"
    /\ pc = "done"
    /\ exit = 0
    /\ prevPauseOk
    /\ Cardinality(lastPaused) >= 2
    /\ lastPaused \ HashSet(snapshot) # {}
    /\ calls # {}


\* Whether filter_torrents takes cache_mount for a filter: a non-empty string.
HasCacheFilter == cache_mount.given /\ cache_mount.path # << >>

SortedDescending(list) ==
    \A i, j \in 1..Len(list) : i < j => list[i].added_on >= list[j].added_on

\* The torrents of a list that are inside the time window, in the list's order.
InsideWindow(list) ==
    SelectSeq(list, LAMBDA t : timeoffset_to <= t.added_on /\ t.added_on <= timeoffset_from)

\* C3: for a list sorted descending by added_on and no cache filter, filter_torrents
\* returns exactly the torrents with timeoffset_to <= added_on <= timeoffset_from, in
\* their order; torrents newer than timeoffset_from are skipped and the scan goes on.
C3_SortedListGivesWindow ==
    (pc = "filtered" /\ SortedDescending(torrent_list) /\ ~HasCacheFilter)
        => result = InsideWindow(torrent_list)

\* A sorted list that starts with a torrent newer than the window, goes on with one
\* inside it and ends with one older than it.
C3_Witness ==
    /\ pc = "filtered"
    /\ SortedDescending(torrent_list)
    /\ ~HasCacheFilter
    /\ Len(torrent_list) >= 3
    /\ torrent_list[1].added_on > timeoffset_from
    /\ torrent_list[Len(torrent_list)].added_on < timeoffset_to
    /\ result # << >>

\* The content of torrent t is on disk below the cache mount "/m": the file
\* "/m/<name>" exists, whatever os.stat says of it.
OnDiskUnderCacheRoot(t) ==
    <<Sep, Name(0), Sep, t.content_path[Len(t.content_path)]>> \in fs

\* C4: the cache filter is a pure AND with the time window: with a cache filter the
\* result is exactly the result without one, restricted to the torrents whose content
\* path exists under the cache root; without one nothing time-eligible is left out.
C4_CacheFilterIsRestriction ==
    pc = "filtered" =>
        IF HasCacheFilter
        THEN result = SelectSeq(filter_torrents(torrent_list, timeoffset_from,
                                                timeoffset_to, NoMount),
                                OnDiskUnderCacheRoot)
        ELSE result = filter_torrents(torrent_list, timeoffset_from, timeoffset_to, NoMount)

\* The part of C4 that holds of the code: the same, with "exists" read as what
\* os.path.exists answers (the file is on disk and os.stat of it succeeds).
C4_CacheFilterIsRestrictionToStatable ==
    pc = "filtered" =>
        IF HasCacheFilter
        THEN result = SelectSeq(filter_torrents(torrent_list, timeoffset_from,
                                                timeoffset_to, NoMount),
                                LAMBDA t : /\ OnDiskUnderCacheRoot(t)
                                           /\ <<Sep, Name(0), Sep,
                                                t.content_path[Len(t.content_path)]>>
                                                  \notin fsDenied)
        ELSE result = filter_torrents(torrent_list, timeoffset_from, timeoffset_to, NoMount)


\* The identifiers saved in a state file that json_dump_state wrote.
SavedSet(f) ==
    UNION {Range(hs) : hs \in {q \in DistinctSeqs(Hashes) : json_dump_state(q) = f}}

\* The resume invocation has its snapshot of the client.
ResumeReconciled ==
    /\ action = "resume"
    /\ \/ pc \in {"resuming", "cleanup"}
       \/ pc = "done" /\ error \in {"none", "torrent_action"}

\* C5: the resume batch is exactly the torrents of the current full snapshot whose
\* identifier is in the saved set; a saved identifier that is not in the snapshot is
\* left out, raises no error and does not change the exit code.
C5_ResumeBatchIsIntersection ==
    ResumeReconciled =>
        /\ torrents = SelectSeq(snapshot, LAMBDA t : t.hash \in SavedSet(fileAtStart))
        /\ (pc = "done" /\ calls = HashSet(torrents)) => (exit = 0 /\ error = "none")

\* A resume invocation returns 0 having resumed one torrent, another saved
\* identifier being absent from the snapshot.
C5_Witness ==
    /\ ResumeReconciled
    /\ pc = "done"
    /\ exit = 0
    /\ SavedSet(fileAtStart) \ HashSet(snapshot) # {}
    /\ calls # {}

\* C6, as stated: a resume invocation whose load and whose resume() calls all succeed
\* deletes the state file, and afterwards the file does not exist.
C6_FileGoneAfterResume ==
    (action = "resume" /\ pc = "done" /\ loaded.ok /\ error = "none")
        => file = NoFile

\* C6, amended: a resume invocation whose load, connection, query and resume() calls
\* all succeed goes on to remove the state file, whether the batch is the whole saved
\* set, a part of it or empty (then no resume() is called), and returns 0; afterwards
\* the file does not exist unless os.remove itself failed, which leaves it as it was.
C6_RemovalAttemptedAfterResume ==
    /\ (action = "resume" /\ pc = "done" /\ loaded.ok
            /\ error \notin {"connect", "query", "torrent_action"})
        => /\ exit = 0
           /\ calls = HashSet(torrents)
           /\ file = IF removeFailed THEN fileAtStart ELSE NoFile
    /\ (action = "resume" /\ pc = "cleanup") => calls = HashSet(torrents)

\* A resume invocation with an empty batch has returned and the state file is gone.
C6_Witness ==
    /\ action = "resume"
    /\ pc = "done"
    /\ loaded.ok
    /\ error = "none"
    /\ torrents = << >>
    /\ SavedSet(fileAtStart) # {}
    /\ file = NoFile

\* C7: after save_torrent_state, load_torrent_state on the same path returns a record
\* whose torrent_hashes is, as a set, the identifiers of the torrents saved, whatever
\* was at the path before.
C7_SaveLoadRoundTrip ==
    (action = "pause" /\ pc = "done" /\ exit = 0 /\ torrents # << >>)
        => LET r == load_torrent_state(file, FALSE) IN
           r.ok /\ Range(r.hashes) = HashSet(torrents)

\* A pause invocation has saved its record over an older record that held an
\* identifier the new one does not hold.
C7_Witness ==
    /\ action = "pause"
    /\ pc = "done"
    /\ exit = 0
    /\ torrents # << >>
    /\ SavedSet(fileAtStart) \ HashSet(torrents) # {}

\* C9: a resume invocation that finds no state file ends with an error and exit code
\* 1, without constructing the client and without calling resume().
C9_ResumeWithoutStateFileFails ==
    (action = "resume" /\ fileAtStart = NoFile)
        => /\ pc = "done"
           /\ exit = 1
           /\ error \in {"no_state_file", "invalid_params"}
           /\ ~connected
           /\ calls = {}

\* A resume invocation fails for want of a state file after an earlier pause paused
\* a torrent and returned 0 and another invocation has run since.
C9_Witness ==
    /\ action = "resume"
    /\ fileAtStart = NoFile
    /\ error = "no_state_file"
    /\ lastPaused # {}
    /\ ~prevPauseOk

\* C10: after any save_torrent_state the state file holds one complete valid record,
\* the new one or the one before, or does not exist; a failed write is an error.
C10_StateFileWrittenAtomically ==
    (action = "pause" /\ pc = "done")
        => /\ \/ file = NoFile
              \/ file = fileAtStart
              \/ file = json_dump_state(hashes_of(torrents))
           /\ error = "save_failed" => exit = 1


\* The kind of error load_torrent_state raised: the exception and its message.
ErrorKind(r) == <<r.type, r.msg>>

\* The well-formed state files that lack a required field, and those that hold both.
DocumentsMissingField ==
    UNION {DocumentsWith(K) :
             K \in {L \in SUBSET AllKeys : ~({KeyHashes.n, KeyTimestamp.n} \subseteq L)}}
DocumentsComplete ==
    UNION {DocumentsWith(K) :
             K \in {L \in SUBSET AllKeys : {KeyHashes.n, KeyTimestamp.n} \subseteq L}}

\* C8: load_torrent_state fails with three pairwise distinct kinds of error for a
\* state file that does not exist, for malformed JSON and for valid JSON that lacks
\* torrent_hashes or timestamp; a file with both loads, extra fields or not.
C8_LoadErrorKindsDistinct ==
    (pc = "loaded" /\ loaded.msg # "read_failed") =>
        LET missing == <<"RuntimeError", "no_state_file">>
            malformed == <<"RuntimeError", "corrupted">>
            incomplete == <<"ValueError", "missing_fields">>
        IN /\ missing # malformed /\ missing # incomplete /\ malformed # incomplete
           /\ file = NoFile => (~loaded.ok /\ ErrorKind(loaded) = missing)
           /\ (file # NoFile /\ file \notin Documents)
                  => (~loaded.ok /\ ErrorKind(loaded) = malformed)
           /\ file \in DocumentsMissingField
                  => (~loaded.ok /\ ErrorKind(loaded) = incomplete)
           /\ file \in DocumentsComplete
                  => (loaded.ok /\ file \in DocumentsWith(loaded.keys))

\* A state file with the two required fields and an unknown one has loaded.
C8_Witness ==
    /\ pc = "loaded"
    /\ file \in DocumentsWith({KeyHashes.n, KeyTimestamp.n, KeyOther.n})
    /\ loaded.ok
    /\ loaded.hashes # << >>

\* C11: manage_torrents applies the action to the torrents one at a time, in the
\* order of its input and without retry: at every moment the torrents on which the
\* call has returned are exactly the first idx of the batch, and if the call on a
\* torrent fails, the batch stops there (the action has been applied to the
\* torrents before it and to none after it) and the invocation exits with 1.
C11_BatchStopsAtFirstFailure ==
    action \in {"pause", "resume"} =>
        /\ idx <= Len(torrents)
        /\ calls = {torrents[i].hash : i \in 1..idx}
        /\ action = "pause" => calls \subseteq paused
        /\ action = "resume" => calls \cap paused = {}
        /\ error = "torrent_action" => pc = "done" /\ exit = 1 /\ idx < Len(torrents)

\* resume() failed on the second torrent of a batch of two, after the first.
C11_Witness ==
    /\ action = "resume"
    /\ pc = "done"
    /\ error = "torrent_action"
    /\ Len(torrents) = 2
    /\ idx = 1
    /\ calls = {torrents[1].hash}

\* C12: a pause invocation whose --days-from is greater than its --days-to is
\* rejected with exit code 1 before any client connection is attempted, before any
\* torrent is queried or paused and before the state file is read or written.
C12_BadWindowRejectedBeforeAnyEffect ==
    (args.action = "pause" /\ args.days_from > args.days_to /\ pc # "idle") =>
        /\ pc = "done"
        /\ exit = 1
        /\ error = "config"
        /\ ~connected
        /\ snapshot = << >>
        /\ torrents = << >>
        /\ calls = {}
        /\ loaded = NotLoaded
        /\ file = fileAtStart

\* A pause with --days-from above --days-to has returned; a state file and torrents
\* that it could have paused are there.
C12_Witness ==
    /\ args.action = "pause"
    /\ args.days_from > args.days_to
    /\ pc = "done"
    /\ file # NoFile
    /\ present \ paused # {}

\* C13: writing any of the pause-only flags (--cache-mount, --days-from, --days-to,
\* --status-filter) on the command line of a resume invocation, with any value, is
\* a validation error that names every flag that was written, raised before the
\* state file is read and before any client connection.
C13_PauseOnlyFlagWithResumeRejected ==
    (args.action = "resume" /\ args.supplied # {} /\ pc # "idle") =>
        /\ pc = "done"
        /\ exit = 1
        /\ error = "invalid_params"
        /\ Range(provided_params(args)) = args.supplied
        /\ loaded = NotLoaded
        /\ ~connected
        /\ file = fileAtStart

\* What the code does instead: the flags it rejects and names are those whose value
\* differs from the default.
C13_NonDefaultValueWithResumeRejected ==
    (args.action = "resume" /\ pc # "idle"
        /\ \E p \in Range(pause_params) : getattr(args, p) # get_default(p)) =>
        /\ pc = "done"
        /\ exit = 1
        /\ error = "invalid_params"
        /\ Range(provided_params(args)) =
               {p \in Range(pause_params) : getattr(args, p) # get_default(p)}
        /\ loaded = NotLoaded
        /\ ~connected
        /\ file = fileAtStart

\* The scan of filter_torrents gets as far as position i of torrent_list.
Scanned(i) ==
    \A j \in 1..(i - 1) :
        ~stop_scan(torrent_list[j].added_on, timeoffset_from, timeoffset_to)

\* The existence check of torrent t under the cache mount meets a filesystem error
\* other than 'not found'.
StatDenied(t) == path_join(cache_mount.path, lstrip(t.content_path)) \in fsDenied

\* C14: with a cache filter, when the existence check of a torrent that the scan
\* reaches inside the window meets a filesystem error other than 'not found', the
\* error ends the whole selection as a failure: filter_torrents does not return a
\* list from which that torrent has silently been left out.
C14_StatErrorFailsSelection ==
    \A i \in 1..Len(torrent_list) :
        (/\ pc = "filtered"
         /\ HasCacheFilter
         /\ Scanned(i)
         /\ in_window(torrent_list[i].added_on, timeoffset_from, timeoffset_to)
         /\ StatDenied(torrent_list[i])) => error # "none"

\* C15: when the deletion of the state file fails after a resume batch that went
\* through, the failure is only logged: the resume invocation still exits with 0,
\* the torrents it resumed stay resumed, and the state file is left as it was.
C15_FailedRemovalIsOnlyAWarning ==
    (action = "resume" /\ pc = "done" /\ removeFailed) =>
        /\ exit = 0
        /\ error = "none"
        /\ calls = HashSet(torrents)
        /\ calls \cap paused = {}
        /\ file = fileAtStart

\* A resume that resumed a torrent and then could not delete the state file.
C15_Witness ==
    /\ action = "resume"
    /\ pc = "done"
    /\ removeFailed
    /\ calls # {}
    /\ file # NoFile

\* The position of the first torrent of torrent_list that is older than the window
\* (added_on < timeoffset_to), Len(torrent_list) + 1 if there is none.
FirstTooOld ==
    LET old == {i \in 1..Len(torrent_list) : torrent_list[i].added_on < timeoffset_to}
    IN  IF old = {} THEN Len(torrent_list) + 1
        ELSE CHOOSE i \in old : \A j \in old : i <= j

\* C16: for any input sequence, sorted or not, the result of filter_torrents never
\* holds a torrent outside the window; it holds every torrent that is inside the
\* window, has its content under the cache root when a cache filter is set, and
\* stands before the first torrent older than the window; and it holds no torrent
\* that stands at or after that position.
C16_ScanOfAnySequence ==
    pc = "filtered" =>
        /\ \A k \in 1..Len(result) :
              in_window(result[k].added_on, timeoffset_from, timeoffset_to)
        /\ \A i \in 1..Len(torrent_list) :
              (/\ i < FirstTooOld
               /\ in_window(torrent_list[i].added_on, timeoffset_from, timeoffset_to)
               /\ HasCacheFilter => OnDiskUnderCacheRoot(torrent_list[i]))
                  => torrent_list[i] \in Range(result)
        /\ \A i \in 1..Len(torrent_list) :
              i >= FirstTooOld => torrent_list[i] \notin Range(result)

\* The part of C16 that holds of the code: the same, with "satisfies the cache
\* filter" read as what exists_in_cache answers.
C16_ScanOfAnySequenceToStatable ==
    pc = "filtered" =>
        /\ \A k \in 1..Len(result) :
              in_window(result[k].added_on, timeoffset_from, timeoffset_to)
        /\ \A i \in 1..Len(torrent_list) :
              (/\ i < FirstTooOld
               /\ in_window(torrent_list[i].added_on, timeoffset_from, timeoffset_to)
               /\ cache_ok(cache_mount, torrent_list[i].content_path))
                  => torrent_list[i] \in Range(result)
        /\ \A i \in 1..Len(torrent_list) :
              i >= FirstTooOld => torrent_list[i] \notin Range(result)

\* The torrent identifiers written in a state file, whole or cut short.
IdsIn(f) == {f[i].n : i \in {j \in 1..Len(f) : f[j].tok = "str" /\ f[j].n >= 1}}

\* C17: a pause invocation writes the state file only after pause() has returned
\* for every selected torrent, so every identifier in what it wrote belongs to a
\* torrent it paused; and if a pause() call fails, the state file is left exactly
\* as it was before the invocation, while the torrents already paused stay paused
\* and the invocation exits with 1.
C17_RecordWrittenOnlyAfterFullBatch ==
    action = "pause" =>
        /\ file # fileAtStart =>
              /\ pc = "done"
              /\ calls = HashSet(torrents)
              /\ calls \subseteq paused
              /\ IdsIn(file) \subseteq calls
        /\ error = "torrent_action" =>
              /\ pc = "done"
              /\ exit = 1
              /\ file = fileAtStart
              /\ calls \subseteq paused

\* pause() failed after a torrent had been paused, with the record of an earlier
\* pause in the state file.
C17_Witness ==
    /\ action = "pause"
    /\ pc = "done"
    /\ error = "torrent_action"
    /\ calls # {}
    /\ file # NoFile
    /\ IdsIn(file) # calls

\* C18: if a resume() call fails, the state file is neither deleted nor modified:
\* it still holds the whole saved set, the invocation exits with 1, and a later
\* resume invocation on the same path loads the same set again.
C18_FailedResumeKeepsStateFile ==
    (action = "resume" /\ error = "torrent_action") =>
        /\ pc = "done"
        /\ exit = 1
        /\ file = fileAtStart
        /\ loaded.ok
        /\ load_torrent_state(file, FALSE) = loaded
        /\ HashSet(torrents) \subseteq Range(loaded.hashes)

\* resume() failed after a torrent had been resumed.
C18_Witness ==
    /\ action = "resume"
    /\ pc = "done"
    /\ error = "torrent_action"
    /\ calls # {}
    /\ Range(load_torrent_state(file, FALSE).hashes) \ calls # {}

\* C19: a pause invocation whose selection is empty calls pause() on no torrent,
\* leaves the state file untouched (neither created, overwritten nor deleted) and
\* exits with 0.
C19_EmptySelectionTouchesNothing ==
    (/\ action = "pause"
     /\ pc = "done"
     /\ connected
     /\ error \notin {"connect", "query"}
     /\ torrents = << >>) =>
        /\ exit = 0
        /\ error = "none"
        /\ idx = 0
        /\ calls = {}
        /\ file = fileAtStart

\* A pause that selected none of the torrents of the client, with the record of an
\* earlier pause in the state file.
C19_Witness ==
    /\ action = "pause"
    /\ pc = "done"
    /\ exit = 0
    /\ snapshot # << >>
    /\ torrents = << >>
    /\ file # NoFile

====
